---- MODULE Spec2Model ----
(***************************************************************************)
(* Feed-ingestion pipeline of backend/server.js: the unified scraper loop  *)
(* (unifiedScraper), its socket.io start/stop control, the per-item        *)
(* keyword match and the find-then-create deduplication into the HateAlert *)
(* collection.                                                             *)
(*                                                                         *)
(* Strings are sequences of one-character strings, so that trim(),         *)
(* toLowerCase() and includes() are computed character by character.       *)
(***************************************************************************)
EXTENDS Integers, Sequences, FiniteSets, Bags, TLC

VARIABLES
    scraperRunning,  \* server.js:30   let scraperRunning = false
    loops,           \* bag of live unifiedScraper invocations: awaiting a fetch, or a pending setTimeout
    pending,         \* bag of item callbacks suspended at an await (server.js:906-930)
    store,           \* the HateAlert collection: a bag of documents
    emitted,         \* the "hate-alert" events broadcast by io.emit: a bag of alerts
    feeds,           \* the items each feed URL currently serves (the environment)
    rawItem,         \* the matcher on its own: the item fields as the parser reads them
    found,           \* the matcher on its own: {} before the match, then {TRUE} or {FALSE}
    unhandled,       \* the promise rejections of item callbacks that nothing handles
    probe,           \* the per-subscriber step on its own: one subscription, one report location
    outcome,         \* the per-subscriber step on its own: {} before the step, then {its result}
    subs,            \* the Subscription collection, in the order find() returns it
    news,            \* the News collection: a bag of documents
    reports,         \* the Report collection: a bag of documents
    notifies,        \* bag of notifySubscribers invocations suspended at an await
    sends,           \* the send attempts made by the senders: a bag
    responses,       \* the HTTP responses given to submitters: a bag
    events,          \* the socket.io events of the report handlers: a bag
    edits,           \* bag of verify / approve / delete handlers suspended at an await
    answer,          \* the status of the last response of an administrator's route: {} before any
    session,         \* req.session.user is set for the browser that sends the requests
    copies,          \* the News collection of each of the other server variants
    csv,             \* the rows of the CSV file the importer reads (the environment)
    job,             \* the importCSV / cleanDuplicates run of the process, how far it is
    clock            \* Date.now() as the last import run read it

vars == <<scraperRunning, loops, pending, store, emitted, feeds, rawItem, found,
          unhandled, probe, outcome, subs, news, reports, notifies, sends,
          responses, events, edits, answer, session, copies, csv, job, clock>>

scraperVars == <<scraperRunning, loops, pending, store, emitted, feeds>>
matchVars == <<rawItem, found>>
deliverVars == <<probe, outcome>>
reportVars == <<subs, news, reports, notifies, sends, responses, events, edits>>
importVars == <<csv, job, clock>>
\* what only the administrator's routes and the importer touch
moreVars == <<answer, session, copies, importVars>>
\* what the scraper loop and the matcher leave alone
restVars == <<unhandled, deliverVars, reportVars, moreVars>>

---------------------------------------------------------------------------
(* Bounds of the model *)

MaxLoops == 2      \* unifiedScraper invocations alive at once
MaxPending == 2    \* item callbacks suspended at once
MaxLen == 4        \* characters of title and description together (matcher on its own)
MaxRequests == 2   \* report submissions received
MaxEdits == 2      \* verify / approve / delete handlers suspended at once

---------------------------------------------------------------------------
(* Strings *)

UpperChars == <<"A","B","C","D","E","F","G","H","I","J","K","L","M",
                "N","O","P","Q","R","S","T","U","V","W","X","Y","Z">>
LowerChars == <<"a","b","c","d","e","f","g","h","i","j","k","l","m",
                "n","o","p","q","r","s","t","u","v","w","x","y","z">>

WhiteSpace == {" ", "\n"}

ToLowerChar(c) ==
    IF \E i \in DOMAIN UpperChars : UpperChars[i] = c
    THEN LowerChars[CHOOSE i \in DOMAIN UpperChars : UpperChars[i] = c]
    ELSE c

\* String.prototype.toLowerCase
ToLowerCase(s) == [i \in DOMAIN s |-> ToLowerChar(s[i])]

\* String.prototype.trim
Trim(s) ==
    LET keep == {i \in DOMAIN s : s[i] \notin WhiteSpace}
    IN  IF keep = {} THEN <<>>
        ELSE LET lo == CHOOSE i \in keep : \A j \in keep : i <= j
                 hi == CHOOSE i \in keep : \A j \in keep : j <= i
             IN  SubSeq(s, lo, hi)

\* String.prototype.includes
Includes(s, k) ==
    \E p \in 0..(Len(s) - Len(k)) : \A j \in 1..Len(k) : s[p + j] = k[j]

---------------------------------------------------------------------------
(* The scraper's configuration (server.js:864-889) *)

FEEDS == <<"https://www.vanguardngr.com/feed/",
           "https://punchng.com/feed/",
           "https://www.icirnigeria.org/feed/">>

NumFeeds == Len(FEEDS)

KEYWORDS == <<
    <<"n","i","g","e","r"," ","d","e","l","t","a">>,
    <<"m","i","l","i","t","a","n","t">>,
    <<"p","i","p","e","l","i","n","e">>,
    <<"o","i","l"," ","b","u","n","k","e","r","i","n","g">>,
    <<"a","t","t","a","c","k">>,
    <<"k","i","d","n","a","p">>,
    <<"k","i","l","l">>,
    <<"c","o","n","f","l","i","c","t">>,
    <<"h","a","t","e">>,
    <<"g","u","n","m","e","n">>,
    <<"r","i","v","e","r","i","n","e">>,
    <<"h","o","s","t","a","g","e">>,
    <<"h","e","r","d","e","r">>,
    <<"c","l","a","s","h">>,
    <<"v","i","o","l","e","n","c","e">>,
    <<"b","o","m","b">>,
    <<"e","x","p","l","o","s","i","o","n">>,
    <<"c","u","l","t","i","s","t","s">> >>

\* server.js:907-909: the three fields of an item, each trimmed
ParseItem(raw) ==
    [title |-> Trim(raw.title), link |-> Trim(raw.link), desc |-> Trim(raw.desc)]

\* the same without toLowerCase()
CombinedAsIs(title, desc) == title \o <<" ">> \o desc

\* server.js:911   const combined = `${title} ${desc}`.toLowerCase()
Combined(title, desc) == ToLowerCase(title \o <<" ">> \o desc)

\* server.js:913   KEYWORDS.some(k => combined.includes(k.toLowerCase()))
Found(title, desc) ==
    \E n \in DOMAIN KEYWORDS :
        Includes(Combined(title, desc), ToLowerCase(KEYWORDS[n]))

---------------------------------------------------------------------------
(* The HateAlert collection (server.js:153-158) *)

\* a query on a field no document has: it never finds anything
FindOneMiss(st, t) == {d \in BagToSet(st) : FALSE}

\* a lookup that also answers for every alert that was ever broadcast
FindOneEverBroadcast(st, t) == {d \in BagToSet(st) \cup BagToSet(emitted) : d.text = t}

\* HateAlert.findOne({ text: t }): the stored documents whose text is t; the
\* caller only tests the answer for null, so the set stands for the answer.
FindOne(st, t) == {d \in BagToSet(st) : d.text = t}

\* the two fields swapped
NewAlertSwapped(title, link) == [text |-> link, url |-> title]

\* server.js:916-920: the alert built from a matched item (timestamp left out)
NewAlert(title, link) == [text |-> title, url |-> link]

One(x) == SetToBag({x})

---------------------------------------------------------------------------
(* The environment: what the feeds serve *)

Kill == <<"k","i","l","l">>

ItemA == [title |-> Kill, link |-> <<"u","1">>, desc |-> <<>>]
ItemB == [title |-> <<"\n">> \o Kill \o <<" ">>, link |-> <<" ","u","2">>, desc |-> <<>>]
ItemC == [title |-> <<"o","k">>, link |-> <<"u","3">>, desc |-> <<"i","l","l">>]
ItemD == [title |-> <<"T","o","l","l">>, link |-> <<"u","4">>, desc |-> <<"a"," ","B","o","m","b">>]

ItemPool == {ItemA, ItemB, ItemC, ItemD}

FeedDocs ==
    << <<ItemA, ItemC>>, <<ItemB, ItemD>>, <<>>, <<ItemA, ItemB>>, <<ItemB>> >>

\* what the three feeds serve, in the order of FEEDS
FeedsTwoTitles == <<FeedDocs[1], FeedDocs[2], FeedDocs[3]>>
FeedsSameTitleTwice == <<FeedDocs[4], FeedDocs[3], FeedDocs[3]>>
FeedsOneTitle == <<FeedDocs[1], FeedDocs[5], FeedDocs[3]>>

FeedConfigs == {FeedsTwoTitles, FeedsSameTitleTwice, FeedsOneTitle}

---------------------------------------------------------------------------
(* The scraper loop *)

\* server.js:859-895: unifiedScraper is entered with the flag up; the fetch of the
\* first feed is issued. fetched (history): the feeds answered in this cycle.
Entered ==
    [pc |-> "fetch", idx |-> 1, fetched |-> {}, stopSeen |-> FALSE]

\* server.js:937   setTimeout(unifiedScraper, 60 * 1000)
\* stopSeen (history): a stop-scraper signal arrived while this timer is pending.
Scheduled(lp) ==
    [pc |-> "timer", idx |-> lp.idx, fetched |-> lp.fetched, stopSeen |-> FALSE]

\* the same without the check of the flag
EntryNoGuard(running) == One(Entered)

\* server.js:859-860: what entering unifiedScraper adds to the live invocations:
\* nothing when the flag is down (it returns at once)
Entry(running) == IF running THEN One(Entered) ELSE EmptyBag

\* server.js:906-913: the items of one document that match a keyword, as the
\* callbacks they leave suspended at  await HateAlert.findOne
MatchedIdx(doc) ==
    {j \in DOMAIN doc : Found(ParseItem(doc[j]).title, ParseItem(doc[j]).desc)}

Callback(item) ==
    [title |-> item.title, link |-> item.link, pc |-> "find"]

Spawned(doc) ==
    LET cs == {Callback(ParseItem(doc[j])) : j \in MatchedIdx(doc)}
    IN  [c \in cs |->
            Cardinality({j \in MatchedIdx(doc) : Callback(ParseItem(doc[j])) = c})]

SpawnedOf == [doc \in {FeedDocs[n] : n \in DOMAIN FeedDocs} |-> Spawned(doc)]

TypeOK ==
    /\ scraperRunning \in BOOLEAN
    /\ IsABag(loops)
    /\ BagCardinality(loops) <= MaxLoops
    /\ \A lp \in BagToSet(loops) :
          /\ lp.pc \in {"fetch", "timer"}
          /\ lp.idx \in 1..NumFeeds
          /\ lp.fetched \subseteq 1..NumFeeds
          /\ lp.stopSeen \in BOOLEAN
    /\ IsABag(pending)
    /\ BagCardinality(pending) <= MaxPending
    /\ IsABag(store)
    /\ IsABag(emitted)
    /\ feeds \in FeedConfigs

InitScraper ==
    /\ scraperRunning = FALSE
    /\ loops = EmptyBag
    /\ pending = EmptyBag
    /\ store = EmptyBag
    /\ emitted = EmptyBag

NoItem == [title |-> <<>>, link |-> <<>>, desc |-> <<>>]

\* an absent or empty string field: both are falsy where the code tests them
Absent == <<>>

NoProbe ==
    [sub |-> [phone |-> Absent, email |-> Absent, location |-> Absent, method |-> Absent],
     location |-> Absent]

\* the collections of the report handlers are empty, no handler is in flight
InitReports ==
    /\ subs = <<>>
    /\ news = EmptyBag
    /\ reports = EmptyBag
    /\ notifies = EmptyBag
    /\ sends = EmptyBag
    /\ responses = EmptyBag
    /\ events = EmptyBag
    /\ edits = EmptyBag

\* the server variants whose approve route is one update call
\* (part_003:142-150 findByIdAndUpdate, import.js:265-269 findOneAndUpdate)
Variants == {"part_003", "import.js"}

NoCopies == [v \in Variants |-> {}]

\* the process was not started with --import
NoJob ==
    [pc |-> "idle", rows |-> << >>, i |-> 1, skipped |-> FALSE, full |-> FALSE,
     items |-> << >>, seen |-> {}, failed |-> FALSE]

\* no administrator's request was answered, nobody is logged in, no import runs
InitMore ==
    /\ answer = {}
    /\ session = FALSE
    /\ copies = NoCopies
    /\ csv = <<>>
    /\ job = NoJob
    /\ clock = 0

InitRest ==
    /\ unhandled = {}
    /\ probe = NoProbe
    /\ outcome = {}
    /\ InitReports
    /\ InitMore

Init ==
    /\ InitScraper
    /\ feeds \in FeedConfigs
    /\ rawItem = NoItem
    /\ found = {}
    /\ InitRest

\* server.js:778-781: the start-scraper handler
StartScraper ==
    /\ BagCardinality(loops) < MaxLoops
    /\ scraperRunning' = TRUE
    /\ loops' = loops (+) Entry(TRUE)
    /\ UNCHANGED <<pending, store, emitted, feeds, matchVars, restVars>>

\* server.js:783-785: the stop-scraper handler
StopScraper ==
    /\ scraperRunning' = FALSE
    /\ loops' = LET seen(lp) == IF lp.pc = "timer" THEN [lp EXCEPT !.stopSeen = TRUE] ELSE lp
                    to == {seen(lp) : lp \in BagToSet(loops)}
                IN  [r \in to |->
                        LET from == {lp \in BagToSet(loops) : seen(lp) = r}
                        IN  BagCardinality([lp \in from |-> loops[lp]])]
    /\ UNCHANGED <<pending, store, emitted, feeds, matchVars, restVars>>

\* server.js:895-931, 937: the response of feed idx arrives; every matching item
\* leaves a callback suspended at findOne; then the next feed is requested, or,
\* after the last feed, the timer is set.
FetchOk(lp) ==
    /\ lp \in BagToSet(loops)
    /\ lp.pc = "fetch"
    /\ LET got == [lp EXCEPT !.fetched = @ \cup {lp.idx}]
           new == SpawnedOf[feeds[lp.idx]]
       IN  /\ BagCardinality(pending) + BagCardinality(new) <= MaxPending
           /\ pending' = pending (+) new
           /\ loops' = (loops (-) One(lp)) (+)
                            One(IF lp.idx < NumFeeds
                                THEN [got EXCEPT !.idx = lp.idx + 1]
                                ELSE Scheduled(got))
    /\ UNCHANGED <<scraperRunning, store, emitted, feeds, matchVars, restVars>>

\* the same with the catch block leaving the function: no timer is set
FetchFailNoTimer(lp) ==
    /\ lp \in BagToSet(loops)
    /\ lp.pc = "fetch"
    /\ loops' = loops (-) One(lp)
    /\ UNCHANGED <<scraperRunning, pending, store, emitted, feeds, matchVars, restVars>>

\* server.js:891-937: axios.get of feed idx rejects; the catch around the whole
\* for loop logs it, and the timer is set.
FetchFail(lp) ==
    /\ lp \in BagToSet(loops)
    /\ lp.pc = "fetch"
    /\ loops' = (loops (-) One(lp)) (+) One(Scheduled(lp))
    /\ UNCHANGED <<scraperRunning, pending, store, emitted, feeds, matchVars, restVars>>

\* server.js:937, 859-860: the 60-second timer fires and unifiedScraper is entered
TimerFire(lp) ==
    /\ lp \in BagToSet(loops)
    /\ lp.pc = "timer"
    /\ loops' = (loops (-) One(lp)) (+) Entry(scraperRunning)
    /\ UNCHANGED <<scraperRunning, pending, store, emitted, feeds, matchVars, restVars>>

\* the same without the test of what findOne answered
ItemFindAlwaysCreate(c) ==
    /\ c \in BagToSet(pending)
    /\ c.pc = "find"
    /\ pending' = (pending (-) One(c)) (+) One([c EXCEPT !.pc = "create"])
    /\ UNCHANGED <<scraperRunning, loops, store, emitted, feeds, matchVars, restVars>>

\* server.js:922-924: findOne answers; when nothing was found, create is issued
ItemFind(c) ==
    /\ c \in BagToSet(pending)
    /\ c.pc = "find"
    /\ LET exists == FindOne(store, c.title)
       IN  pending' = IF exists = {}
                      THEN (pending (-) One(c)) (+) One([c EXCEPT !.pc = "create"])
                      ELSE pending (-) One(c)
    /\ UNCHANGED <<scraperRunning, loops, store, emitted, feeds, matchVars, restVars>>

\* an upsert by text in the place of the insert: the stored alerts with this
\* text give way to the new one
ItemCreateReplacing(c) ==
    /\ c \in BagToSet(pending)
    /\ c.pc = "create"
    /\ store' = [d \in {x \in BagToSet(store) : x.text # c.title} |-> store[d]]
                    (+) One(NewAlert(c.title, c.link))
    /\ emitted' = emitted (+) One(NewAlert(c.title, c.link))
    /\ pending' = pending (-) One(c)
    /\ UNCHANGED <<scraperRunning, loops, feeds, matchVars, restVars>>

\* server.js:925-927: the insert of HateAlert.create takes effect and the
\* continuation broadcasts the alert (nothing reads the broadcasts, so the two
\* are one step)
ItemCreate(c) ==
    /\ c \in BagToSet(pending)
    /\ c.pc = "create"
    /\ store' = store (+) One(NewAlert(c.title, c.link))
    /\ emitted' = emitted (+) One(NewAlert(c.title, c.link))
    /\ pending' = pending (-) One(c)
    /\ UNCHANGED <<scraperRunning, loops, feeds, matchVars, restVars>>

\* every value a live invocation / a suspended callback can take
LoopStates ==
    {[pc |-> p, idx |-> i, fetched |-> 1..(i - 1) \cup g, stopSeen |-> b] :
        p \in {"fetch", "timer"}, i \in 1..NumFeeds, g \in {{}, {NumFeeds}},
        b \in BOOLEAN}

CallbackStates ==
    {[Callback(ParseItem(it)) EXCEPT !.pc = p] :
        it \in ItemPool, p \in {"find", "create"}}

Next ==
    \/ StartScraper
    \/ StopScraper
    \/ \E lp \in LoopStates : FetchOk(lp)
    \/ \E lp \in LoopStates : FetchFail(lp)
    \/ \E lp \in LoopStates : TimerFire(lp)
    \/ \E c \in CallbackStates : ItemFind(c)
    \/ \E c \in CallbackStates : ItemCreate(c)

Spec == Init /\ [][Next]_vars

\* The event loop never leaves every ready continuation waiting: some fetch
\* response or due timer is eventually handled, and so is some database answer.
LoopStep == \E lp \in LoopStates : FetchOk(lp) \/ FetchFail(lp) \/ TimerFire(lp)
DbStep == \E c \in CallbackStates : ItemFind(c) \/ ItemCreate(c)

Fairness == WF_vars(LoopStep) /\ WF_vars(DbStep)

\* the fair behaviours are explored for one of the feed configurations
FairInit == Init /\ feeds = FeedsOneTitle

FairSpec == FairInit /\ [][Next]_vars /\ Fairness

---------------------------------------------------------------------------
(* The scraper loop when the store fails *)

\* The item callback is an async function that cheerio's each() calls and does
\* not await (server.js:906), so the try of unifiedScraper (server.js:891) is
\* left before findOne or create answers: a rejection of either rejects the
\* callback's promise, which nothing handles. Node then either reports the
\* rejection and goes on, or (its default since version 15) ends the process.
Rejection(c, call, fatal) == [title |-> c.title, call |-> call, fatal |-> fatal]

\* the process is running
Alive == \A u \in unhandled : ~u.fatal

\* server.js:922: HateAlert.findOne rejects
ItemFindFail(c, fatal) ==
    /\ Alive
    /\ c \in BagToSet(pending)
    /\ c.pc = "find"
    /\ unhandled' = unhandled \cup {Rejection(c, "findOne", fatal)}
    /\ IF fatal
       THEN scraperRunning' = FALSE /\ loops' = EmptyBag /\ pending' = EmptyBag
       ELSE pending' = pending (-) One(c) /\ UNCHANGED <<scraperRunning, loops>>
    /\ UNCHANGED <<store, emitted, feeds, matchVars, deliverVars, reportVars, moreVars>>

\* server.js:925: HateAlert.create rejects; nothing is stored or broadcast
ItemCreateFail(c, fatal) ==
    /\ Alive
    /\ c \in BagToSet(pending)
    /\ c.pc = "create"
    /\ unhandled' = unhandled \cup {Rejection(c, "create", fatal)}
    /\ IF fatal
       THEN scraperRunning' = FALSE /\ loops' = EmptyBag /\ pending' = EmptyBag
       ELSE pending' = pending (-) One(c) /\ UNCHANGED <<scraperRunning, loops>>
    /\ UNCHANGED <<store, emitted, feeds, matchVars, deliverVars, reportVars, moreVars>>

InitStoreFail == Init /\ feeds = FeedsOneTitle

\* a step of the scraper while the process is running
AliveNext == Alive /\ Next

NextStoreFail ==
    \/ AliveNext
    \/ \E c \in CallbackStates, fatal \in BOOLEAN : ItemFindFail(c, fatal)
    \/ \E c \in CallbackStates, fatal \in BOOLEAN : ItemCreateFail(c, fatal)

SpecStoreFail == InitStoreFail /\ [][NextStoreFail]_vars

---------------------------------------------------------------------------
(* The scraper loop beside the administrator's delete of an alert *)

MaxDeletes == 1    \* alerts the administrator deletes

\* every alert that was stored was broadcast in the same step, so the alerts
\* deleted so far are the broadcasts that are no longer stored
Deleted == BagCardinality(emitted) - BagCardinality(store)

\* routes/hateAlertRoutes.js:18-26: DELETE /hatealert/:id removes the alert with
\* this _id by findByIdAndDelete; an unknown id removes nothing, and when the
\* store rejects the handler answers 500 and nothing is removed
DeleteAlert(d, storeOk) ==
    /\ Deleted < MaxDeletes
    /\ d \in BagToSet(store)
    /\ storeOk
    /\ store' = store (-) One(d)
    /\ UNCHANGED <<scraperRunning, loops, pending, emitted, feeds, matchVars, restVars>>

AlertStates == {NewAlert(ParseItem(it).title, ParseItem(it).link) : it \in ItemPool}

NextAlertDelete ==
    \/ Next
    \/ \E d \in AlertStates, storeOk \in BOOLEAN : DeleteAlert(d, storeOk)

\* explored for the feed configuration that serves one title under two links
InitAlertDelete == Init /\ feeds = FeedsSameTitleTwice

SpecAlertDelete == InitAlertDelete /\ [][NextAlertDelete]_vars

---------------------------------------------------------------------------
(* The keyword matcher on its own *)

Sigma == {"k", "i", "l", "L", " "}

\* every item whose title and description have at most MaxLen characters together
InitMatch ==
    /\ InitScraper
    /\ feeds = [f \in 1..NumFeeds |-> <<>>]
    /\ \E n \in 0..MaxLen : \E m \in 0..(MaxLen - n) :
          \E t \in [1..n -> Sigma], d \in [1..m -> Sigma] :
              rawItem = [title |-> t, link |-> <<>>, desc |-> d]
    /\ found = {}
    /\ InitRest

\* server.js:907-913 applied to rawItem
MatchItem ==
    /\ found = {}
    /\ found' = {Found(ParseItem(rawItem).title, ParseItem(rawItem).desc)}
    /\ UNCHANGED <<scraperVars, rawItem, restVars>>

NextMatch == MatchItem

SpecMatch == InitMatch /\ [][NextMatch]_vars

---------------------------------------------------------------------------
(* The notification dispatcher: one subscriber (server.js:702-734) *)

StartsWith(s, p) == Len(s) >= Len(p) /\ SubSeq(s, 1, Len(p)) = p

\* POST /subscribe-alert without phone.trim()
SubscribeUntrimmed(body) ==
    IF body.phone = Absent \/ body.location = Absent
    THEN [status |-> 400, doc |-> {}]
    ELSE LET phone == IF StartsWith(body.phone, <<"+">>) THEN body.phone
                      ELSE IF StartsWith(body.phone, <<"0">>)
                           THEN <<"+","2","3","4">> \o SubSeq(body.phone, 2, Len(body.phone))
                           ELSE <<"+","2","3","4">> \o body.phone
         IN  [status |-> 200,
              doc |-> {[phone |-> phone, email |-> body.email,
                        location |-> body.location, method |-> body.method]}]

\* server.js:535-555: POST /subscribe-alert. The document it stores, or no
\* document when phone or location is missing.
Subscribe(body) ==
    IF body.phone = Absent \/ body.location = Absent
    THEN [status |-> 400, doc |-> {}]
    ELSE LET trimmed == Trim(body.phone)
             phone == IF StartsWith(trimmed, <<"+">>) THEN trimmed
                      ELSE IF StartsWith(trimmed, <<"0">>)
                           THEN <<"+","2","3","4">> \o SubSeq(trimmed, 2, Len(trimmed))
                           ELSE <<"+","2","3","4">> \o trimmed
         IN  [status |-> 200,
              doc |-> {[phone |-> phone, email |-> body.email,
                        location |-> body.location, method |-> body.method]}]

\* server.js:266-269: normalizeStateName. replace(/state/gi, "") removes every
\* occurrence of the word, left to right, in one pass.
RECURSIVE RemoveWord(_, _)
RemoveWord(s, w) ==
    IF Len(s) < Len(w) THEN s
    ELSE IF SubSeq(s, 1, Len(w)) = w
         THEN RemoveWord(SubSeq(s, Len(w) + 1, Len(s)), w)
         ELSE <<Head(s)>> \o RemoveWord(Tail(s), w)

normalizeStateName(s) ==
    IF s = Absent THEN <<>>
    ELSE Trim(RemoveWord(ToLowerCase(s), <<"s","t","a","t","e">>))

\* server.js:271-276
locationMatchesState(newsLocation, subLocation) ==
    IF newsLocation = Absent \/ subLocation = Absent THEN FALSE
    ELSE LET nl == ToLowerCase(newsLocation)
             sl == ToLowerCase(subLocation)
         IN  Includes(nl, sl) \/ Includes(sl, nl)

\* the same looking for the subscriber's location in the report's only
LocationMatchOneWay(newsLocation, subLocation) ==
    LET newsLoc == ToLowerCase(newsLocation)
        subLoc == Trim(ToLowerCase(subLocation))
    IN  subLoc # <<>> /\ Includes(newsLoc, subLoc)

\* server.js:689, 703-710: the subscriber is passed over when its location is
\* blank; otherwise the three tests of the if
LocationMatch(newsLocation, subLocation) ==
    LET newsLoc == ToLowerCase(newsLocation)
        subLoc == Trim(ToLowerCase(subLocation))
    IN  /\ subLoc # <<>>
        /\ \/ Includes(newsLoc, subLoc)
           \/ Includes(subLoc, newsLoc)
           \/ locationMatchesState(newsLocation, subLocation)

\* s.method && s.method.toLowerCase().includes(w)
MethodHas(s, w) == s.method # Absent /\ Includes(ToLowerCase(s.method), w)

\* the same with an email address deciding before the method is looked at
BranchEmailIfPresent(s) ==
    IF s.email # Absent THEN "email"
    ELSE IF MethodHas(s, <<"w","h","a","t","s","a","p","p">>) THEN "whatsapp"
    ELSE IF MethodHas(s, <<"s","m","s">>) THEN "sms"
    ELSE "default"

\* server.js:711, 719, 723, 725: the branch of the if / else-if chain
Branch(s) ==
    IF MethodHas(s, <<"e","m","a","i","l">>) THEN "email"
    ELSE IF MethodHas(s, <<"w","h","a","t","s","a","p","p">>) THEN "whatsapp"
    ELSE IF MethodHas(s, <<"s","m","s">>) THEN "sms"
    ELSE "default"

\* the same falling back to the phone number as the email branch does
DefaultSendOrPhone(s) ==
    LET to == IF s.email # Absent THEN s.email ELSE s.phone
    IN  IF to # Absent THEN <<[channel |-> "email", to |-> to]>> ELSE <<>>

\* server.js:725-733: no channel named: an email when there is an address
DefaultSend(s) ==
    IF s.email # Absent THEN <<[channel |-> "email", to |-> s.email]>> ELSE <<>>

\* server.js:711-733: the sender calls the step makes for a matched subscriber,
\* in order: sendEmail, sendWhatsApp, or the [SMS mock] log line
SenderCalls(s) ==
    CASE Branch(s) = "email" ->
            LET to == IF s.email # Absent THEN s.email ELSE s.phone
            IN  IF to = Absent THEN <<>> ELSE <<[channel |-> "email", to |-> to]>>
      [] Branch(s) = "whatsapp" -> <<[channel |-> "whatsapp", to |-> s.phone]>>
      [] Branch(s) = "sms" -> <<[channel |-> "sms", to |-> s.phone]>>
      [] OTHER -> DefaultSend(s)

\* server.js:702-734: the body of the loop for subscriber s and a report at location
Deliver(s, location) ==
    LET matched == LocationMatch(location, s.location)
    IN  [matched |-> matched, calls |-> IF matched THEN SenderCalls(s) ELSE <<>>]

---------------------------------------------------------------------------
(* The environment: subscriptions and report locations *)

Edo == <<"E","d","o">>
EdoState == <<"E","d","o"," ","S","t","a","t","e">>
EdoUpper == <<"E","D","O">>
EdoLed == <<" ","E","d","o">>
EdoImo == <<"E","d","o","/","I","m","o">>
Imo == <<"I","m","o">>
Blank == <<" ">>

Locations == {Edo, EdoState, EdoUpper, EdoLed, EdoImo, Imo, Blank}

Methods ==
    {Absent,
     <<"E","m","a","i","l">>,
     <<"W","h","a","t","s","A","p","p","-","p","r","e","f","e","r","r","e","d">>,
     <<"S","M","S">>,
     <<"s","m","s","+","e","m","a","i","l">>,
     <<"c","a","l","l">>}

Emails == {Absent, <<"a","@","x">>}
Phones == {<<"0","7">>, <<"+","1">>}

\* the request bodies of POST /subscribe-alert, and the documents they leave
SubBodies ==
    [phone : Phones \cup {Absent}, email : Emails,
     location : Locations \cup {Absent}, method : Methods]

SubPool == UNION {Subscribe(b).doc : b \in SubBodies}

\* every stored subscription against every report location
InitDeliver ==
    /\ InitScraper
    /\ feeds = [f \in 1..NumFeeds |-> <<>>]
    /\ rawItem = NoItem
    /\ found = {}
    /\ unhandled = {}
    /\ probe \in [sub : SubPool, location : Locations]
    /\ outcome = {}
    /\ InitReports
    /\ InitMore

\* server.js:702-734 applied to probe
DeliverOne ==
    /\ outcome = {}
    /\ outcome' = {Deliver(probe.sub, probe.location)}
    /\ UNCHANGED <<scraperVars, matchVars, unhandled, probe, reportVars, moreVars>>

NextDeliver == DeliverOne

SpecDeliver == InitDeliver /\ [][NextDeliver]_vars

---------------------------------------------------------------------------
(* The report handlers and the fan-out of notifySubscribers *)

\* three stored subscriptions: "Edo State" by email, "Edo" by WhatsApp, "Imo"
\* with no method and an email address
SubEmail ==
    [phone |-> <<"+","2","3","4","7">>, email |-> <<"a","@","x">>,
     location |-> EdoState, method |-> <<"E","m","a","i","l">>]
SubWhatsApp ==
    [phone |-> <<"+","1">>, email |-> Absent, location |-> Edo,
     method |-> <<"W","h","a","t","s","A","p","p","-","p","r","e","f","e","r","r","e","d">>]
SubNoMethod ==
    [phone |-> <<"+","1">>, email |-> <<"a","@","x">>, location |-> Imo,
     method |-> Absent]

\* what Subscription.find() returns
SubLists ==
    {<<>>, <<SubEmail, SubWhatsApp>>, <<SubWhatsApp, SubNoMethod, SubEmail>>}

\* the request bodies of the report routes: complete, or one field missing
Title == <<"t">>
Content == <<"c">>
ReportBodies ==
    {[title |-> Title, content |-> Content, location |-> Edo],
     [title |-> Title, content |-> Content, location |-> Imo],
     [title |-> Absent, content |-> Content, location |-> Edo],
     [title |-> Title, content |-> Absent, location |-> Edo],
     [title |-> Title, content |-> Content, location |-> Absent]}

\* the requests received so far; every handler answers in the step that ends it
Requests == BagCardinality(responses)

Response(n, route, status) == [req |-> n, route |-> route, status |-> status]

\* server.js:684-688: notifySubscribers runs up to  await Subscription.find()
NotifyEntered(created) ==
    IF created.location = Absent THEN EmptyBag
    ELSE One([rep |-> created.id, location |-> created.location, pc |-> "load", at |-> 1])

\* server.js:574-585: the document of a submitted report (the fields the
\* handlers of this model read; _id stands for the id)
NewsDoc(n, body) ==
    [id |-> n, location |-> body.location, verified |-> FALSE, approved |-> FALSE]

\* the same answering only when the notification is over: no response here
SubmitReportAwaitNotify(body, storeOk) ==
    /\ Requests < MaxRequests
    /\ body.title # Absent /\ body.content # Absent /\ body.location # Absent
    /\ storeOk
    /\ LET created == NewsDoc(Requests + 1, body)
       IN  /\ news' = news (+) One(created)
           /\ events' = events (+) One([name |-> "news:created", rep |-> created.id])
           /\ notifies' = notifies (+) NotifyEntered(created)
    /\ UNCHANGED <<scraperVars, matchVars, unhandled, deliverVars, moreVars,
                   subs, reports, sends, responses, edits>>

\* the same broadcasting before the insert
SubmitReportEmitFirst(body, storeOk) ==
    /\ Requests < MaxRequests
    /\ LET n == Requests + 1
           created == NewsDoc(n, body)
       IN  IF body.title = Absent \/ body.content = Absent \/ body.location = Absent
           THEN /\ responses' = responses (+) One(Response(n, "/api/submit-report", 400))
                /\ UNCHANGED <<news, events, notifies>>
           ELSE IF ~storeOk
           THEN /\ responses' = responses (+) One(Response(n, "/api/submit-report", 500))
                /\ events' = events (+) One([name |-> "news:created", rep |-> n])
                /\ UNCHANGED <<news, notifies>>
           ELSE /\ news' = news (+) One(created)
                /\ events' = events (+) One([name |-> "news:created", rep |-> n])
                /\ notifies' = notifies (+) NotifyEntered(created)
                /\ responses' = responses (+) One(Response(n, "/api/submit-report", 200))
    /\ UNCHANGED <<scraperVars, matchVars, unhandled, deliverVars, moreVars,
                   subs, reports, sends, edits>>

\* server.js:565-602: POST /api/submit-report. 400 when a field is missing; 500
\* when News.create rejects; otherwise the document is stored, news:created is
\* broadcast, notifySubscribers is started and not awaited, and 200 is answered.
SubmitReport(body, storeOk) ==
    /\ Requests < MaxRequests
    /\ LET n == Requests + 1
           created == NewsDoc(n, body)
       IN  IF body.title = Absent \/ body.content = Absent \/ body.location = Absent
           THEN /\ responses' = responses (+) One(Response(n, "/api/submit-report", 400))
                /\ UNCHANGED <<news, events, notifies>>
           ELSE IF ~storeOk
           THEN /\ responses' = responses (+) One(Response(n, "/api/submit-report", 500))
                /\ UNCHANGED <<news, events, notifies>>
           ELSE /\ news' = news (+) One(created)
                /\ events' = events (+) One([name |-> "news:created", rep |-> n])
                /\ notifies' = notifies (+) NotifyEntered(created)
                /\ responses' = responses (+) One(Response(n, "/api/submit-report", 200))
    /\ UNCHANGED <<scraperVars, matchVars, unhandled, deliverVars, moreVars,
                   subs, reports, sends, edits>>

\* models/report.js: title, content and location are required
ReportValid(body) ==
    body.title # Absent /\ body.content # Absent /\ body.location # Absent

\* server.js:748-759: POST /api/report. The Report is stored and new-report is
\* broadcast; 500 when Report.create rejects (validation or store).
PostReport(body, storeOk) ==
    /\ Requests < MaxRequests
    /\ LET n == Requests + 1
       IN  IF ReportValid(body) /\ storeOk
           THEN /\ reports' = reports (+) One([id |-> n, location |-> body.location])
                /\ events' = events (+) One([name |-> "new-report", rep |-> n])
                /\ responses' = responses (+) One(Response(n, "/api/report", 200))
           ELSE /\ responses' = responses (+) One(Response(n, "/api/report", 500))
                /\ UNCHANGED <<reports, events>>
    /\ UNCHANGED <<scraperVars, matchVars, unhandled, deliverVars, moreVars,
                   subs, news, notifies, sends, edits>>

\* routes/reportRoutes.js, mounted at /api/report (server.js:66):
\* POST /api/report/submit. The Report is saved; 500 when save rejects.
PostReportSubmit(body, storeOk) ==
    /\ Requests < MaxRequests
    /\ LET n == Requests + 1
       IN  IF ReportValid(body) /\ storeOk
           THEN /\ reports' = reports (+) One([id |-> n, location |-> body.location])
                /\ responses' = responses (+) One(Response(n, "/api/report/submit", 200))
           ELSE /\ responses' = responses (+) One(Response(n, "/api/report/submit", 500))
                /\ UNCHANGED reports
    /\ UNCHANGED <<scraperVars, matchVars, unhandled, deliverVars, moreVars,
                   subs, news, notifies, sends, events, edits>>

\* where the loop stands after the subscriber at position at
Advanced(nt) ==
    IF nt.at < Len(subs) THEN [nt EXCEPT !.at = nt.at + 1]
    ELSE [nt EXCEPT !.pc = "done", !.at = Len(subs) + 1]

\* server.js:688, 739-741: Subscription.find() answers and the loop begins, or
\* it rejects and the outer catch ends the invocation
NotifyLoad(nt, loadOk) ==
    /\ nt \in BagToSet(notifies)
    /\ nt.pc = "load"
    /\ notifies' = (notifies (-) One(nt)) (+)
                        One(IF ~loadOk THEN [nt EXCEPT !.pc = "failed"]
                            ELSE IF subs = <<>> THEN [nt EXCEPT !.pc = "done"]
                            ELSE [nt EXCEPT !.pc = "loop"])
    /\ UNCHANGED <<scraperVars, matchVars, unhandled, deliverVars, moreVars,
                   subs, news, reports, sends, responses, events, edits>>

\* the sender calls of the loop body, for the subscriptions and the report
\* locations of this part
CallsOf ==
    [s \in UNION {{l[i] : i \in DOMAIN l} : l \in SubLists}, loc \in {Edo, Imo} |->
        Deliver(s, loc).calls]

\* the attempts one step records: a sender call of Deliver with how it ended
Attempts(nt, result) ==
    LET calls == CallsOf[subs[nt.at], nt.location]
    IN  IF calls = <<>> THEN EmptyBag
        ELSE One([rep |-> nt.rep, sub |-> nt.at, channel |-> calls[1].channel,
                  to |-> calls[1].to, result |-> result])

\* the same with a sender failure leaving the loop
NotifyStepStopOnFailure(nt, result) ==
    /\ nt \in BagToSet(notifies)
    /\ nt.pc = "loop"
    /\ CallsOf[subs[nt.at], nt.location] = <<>> => result = "ok"
    /\ sends' = sends (+) Attempts(nt, result)
    /\ notifies' = (notifies (-) One(nt)) (+)
                        One(IF result = "ok" THEN Advanced(nt)
                            ELSE [nt EXCEPT !.pc = "failed"])
    /\ UNCHANGED <<scraperVars, matchVars, unhandled, deliverVars, moreVars,
                   subs, news, reports, responses, events, edits>>

\* server.js:701-738: the loop body for the subscriber at position at. The
\* sender answers ok, answers { ok: false } after catching its own error
\* (server.js:640-643, 678-681), or an exception surfaces in the step and the
\* inner catch logs it; in each case the loop goes on with the next subscriber.
NotifyStep(nt, result) ==
    /\ nt \in BagToSet(notifies)
    /\ nt.pc = "loop"
    /\ CallsOf[subs[nt.at], nt.location] = <<>> => result = "ok"
    /\ sends' = sends (+) Attempts(nt, result)
    /\ notifies' = (notifies (-) One(nt)) (+) One(Advanced(nt))
    /\ UNCHANGED <<scraperVars, matchVars, unhandled, deliverVars, moreVars,
                   subs, news, reports, responses, events, edits>>

SendResults == {"ok", "failed", "threw"}

\* the positions of the lists of SubLists
SubPositions == UNION {DOMAIN l : l \in SubLists}

NotifyStates ==
    {[rep |-> n, location |-> l, pc |-> p, at |-> i] :
        n \in 1..MaxRequests, l \in {Edo, Imo}, p \in {"load", "loop"},
        i \in SubPositions}

InitNotify ==
    /\ InitScraper
    /\ feeds = [f \in 1..NumFeeds |-> <<>>]
    /\ rawItem = NoItem
    /\ found = {}
    /\ unhandled = {}
    /\ probe = NoProbe
    /\ outcome = {}
    /\ subs \in SubLists
    /\ news = EmptyBag
    /\ reports = EmptyBag
    /\ notifies = EmptyBag
    /\ sends = EmptyBag
    /\ responses = EmptyBag
    /\ events = EmptyBag
    /\ edits = EmptyBag
    /\ InitMore

NextNotify ==
    \/ \E body \in ReportBodies, storeOk \in BOOLEAN : SubmitReport(body, storeOk)
    \/ \E body \in ReportBodies, storeOk \in BOOLEAN : PostReport(body, storeOk)
    \/ \E body \in ReportBodies, storeOk \in BOOLEAN : PostReportSubmit(body, storeOk)
    \/ \E nt \in NotifyStates, loadOk \in BOOLEAN : NotifyLoad(nt, loadOk)
    \/ \E nt \in NotifyStates, result \in SendResults : NotifyStep(nt, result)

SpecNotify == InitNotify /\ [][NextNotify]_vars

\* a started notification is not left waiting for ever: the database answers,
\* a sender call returns
NotifyProgress ==
    \/ \E nt \in NotifyStates, loadOk \in BOOLEAN : NotifyLoad(nt, loadOk)
    \/ \E nt \in NotifyStates, result \in SendResults : NotifyStep(nt, result)

FairSpecNotify == SpecNotify /\ WF_vars(NotifyProgress)

---------------------------------------------------------------------------
(* The administrator's routes on a report (server.js:391-439) *)

\* server.js:258-264: findNews(id); the id of this model stands for _id, so at
\* most one document answers
FindNews(k) == {d \in BagToSet(news) : d.id = k}

\* the handlers that act on a found document, suspended at save() / deleteOne()
Loaded(op, d) == One([op |-> op, doc |-> d])

\* the same writing the document as it was loaded, with the flag set
SavedWholeDocument(item, flag) ==
    LET others == [d \in {x \in BagToSet(news) : x.id # item.id} |-> news[d]]
    IN  IF FindNews(item.id) = {} THEN news
        ELSE others (+) One([item EXCEPT ![flag] = TRUE])

\* item.<flag> = true; await item.save(): mongoose writes the paths that were
\* modified, so the stored document gets this flag set and keeps its other
\* fields; nothing is written when the document is gone
Saved(item, flag) ==
    LET others == [d \in {x \in BagToSet(news) : x.id # item.id} |-> news[d]]
        now == {[d EXCEPT ![flag] = TRUE] : d \in FindNews(item.id)}
    IN  others (+) SetToBag(now)

adminUnchanged ==
    <<scraperVars, matchVars, unhandled, deliverVars,
      subs, reports, notifies, sends, responses, events, session, copies, importVars>>

\* server.js:391-394, 409-412: findNews answers; res.status(404) when nothing
\* is found, otherwise the handler goes on with the loaded document
AdminFind(op, k) ==
    /\ BagCardinality(edits) < MaxEdits
    /\ edits' = edits (+) BagUnion({Loaded(op, d) : d \in FindNews(k)})
    /\ answer' = IF FindNews(k) = {} THEN {404} ELSE answer
    /\ UNCHANGED <<adminUnchanged, news>>

\* server.js:391-394
VerifyFind(k) == AdminFind("verify", k)

\* server.js:409-412
ApproveFind(k) == AdminFind("approve", k)

\* server.js:396-403: item.verified = true; save() resolves and the handler
\* answers res.json (200), or rejects and it answers res.status(500)
VerifySave(ed, storeOk) ==
    /\ ed \in BagToSet(edits)
    /\ ed.op = "verify"
    /\ news' = IF storeOk THEN Saved(ed.doc, "verified") ELSE news
    /\ edits' = edits (-) One(ed)
    /\ answer' = IF storeOk THEN {200} ELSE {500}
    /\ UNCHANGED adminUnchanged

\* the same setting verified as well
ApproveSaveAlsoVerifies(ed, storeOk) ==
    /\ ed \in BagToSet(edits)
    /\ ed.op = "approve"
    /\ news' = IF storeOk
                THEN LET others == [d \in {x \in BagToSet(news) : x.id # ed.doc.id} |-> news[d]]
                         now == {[d EXCEPT !.approved = TRUE, !.verified = TRUE] :
                                     d \in FindNews(ed.doc.id)}
                     IN  others (+) SetToBag(now)
                ELSE news
    /\ edits' = edits (-) One(ed)
    /\ answer' = IF storeOk THEN {200} ELSE {500}
    /\ UNCHANGED adminUnchanged

\* server.js:414-421: item.approved = true; save() resolves and the handler
\* answers res.json (200), or rejects and it answers res.status(500)
ApproveSave(ed, storeOk) ==
    /\ ed \in BagToSet(edits)
    /\ ed.op = "approve"
    /\ news' = IF storeOk THEN Saved(ed.doc, "approved") ELSE news
    /\ edits' = edits (-) One(ed)
    /\ answer' = IF storeOk THEN {200} ELSE {500}
    /\ UNCHANGED adminUnchanged

\* server.js:427-439: DELETE /api/news/delete/:id. findNews, then deleteOne of
\* the document found, by its _id: what other handlers do between the two does
\* not change which document goes, so the two are one step. 404 when nothing is
\* found, 500 when the store rejects: nothing changes.
DeleteNews(k, storeOk) ==
    /\ news' = IF storeOk THEN [d \in {x \in BagToSet(news) : x.id # k} |-> news[d]]
                ELSE news
    /\ answer' = IF FindNews(k) = {} THEN {404} ELSE IF storeOk THEN {200} ELSE {500}
    /\ UNCHANGED <<adminUnchanged, edits>>

ValidBodies == {body \in ReportBodies : ReportValid(body) /\ body.location = Edo}

EditStates ==
    {[op |-> op, doc |-> [NewsDoc(n, body) EXCEPT !.verified = v, !.approved = a]] :
        op \in {"verify", "approve"}, n \in 1..MaxRequests,
        body \in ValidBodies, v \in BOOLEAN, a \in BOOLEAN}

InitAdmin == InitNotify /\ subs = <<>>

\* the submissions of this part are complete and stored
NextAdmin ==
    \/ \E body \in ValidBodies : SubmitReport(body, TRUE)
    \/ \E k \in 1..MaxRequests : VerifyFind(k)
    \/ \E k \in 1..MaxRequests : ApproveFind(k)
    \/ \E ed \in EditStates, storeOk \in BOOLEAN : VerifySave(ed, storeOk)
    \/ \E ed \in EditStates, storeOk \in BOOLEAN : ApproveSave(ed, storeOk)
    \/ \E k \in 1..MaxRequests, storeOk \in BOOLEAN : DeleteNews(k, storeOk)

SpecAdmin == InitAdmin /\ [][NextAdmin]_vars

---------------------------------------------------------------------------
(* The administrator's session and the routes of the other server variants *)

MaxCopies == 1     \* reports submitted to each of the other variants

\* server.js:309-332: POST /login sets req.session.user when the user exists
\* and the password matches, and answers 401 otherwise
Login(match) ==
    /\ session' = (session \/ match)
    /\ UNCHANGED <<scraperVars, matchVars, unhandled, deliverVars, reportVars,
                   answer, copies, importVars>>

\* import.js:185-188: isLoggedIn lets a request through when req.session.user is
\* set; the routes of part_003:110-150 have no such middleware
isLoggedIn(v) == v = "import.js" => session

variantUnchanged ==
    <<scraperVars, matchVars, unhandled, deliverVars, reportVars,
      answer, session, importVars>>

\* part_003:110-129 POST /api/news, import.js:224-243 POST /add-news: saves a
\* report that is neither verified nor approved
VariantSubmit(v) ==
    /\ isLoggedIn(v)
    /\ Cardinality(copies[v]) < MaxCopies
    /\ copies' = [copies EXCEPT ![v] = @ \cup
                    {[id |-> Cardinality(copies[v]) + 1,
                      verified |-> FALSE, approved |-> FALSE]}]
    /\ UNCHANGED variantUnchanged

\* findByIdAndUpdate / findOneAndUpdate: one update of the document with this
\* id, if there is one
Updated(docs, k, flag) == {IF d.id = k THEN [d EXCEPT ![flag] = TRUE] ELSE d : d \in docs}

\* part_003:132-140, import.js:256-260: PUT /api/news/verify/:id
VariantVerify(v, k) ==
    /\ isLoggedIn(v)
    /\ copies' = [copies EXCEPT ![v] = Updated(@, k, "verified")]
    /\ UNCHANGED variantUnchanged

\* part_003:142-150, import.js:265-269: PUT /api/news/approve/:id
VariantApprove(v, k) ==
    /\ isLoggedIn(v)
    /\ copies' = [copies EXCEPT ![v] = Updated(@, k, "approved")]
    /\ UNCHANGED variantUnchanged

\* the variants side by side, each on its own collection
NextVariants ==
    \/ NextAdmin
    \/ \E match \in BOOLEAN : Login(match)
    \/ \E v \in Variants : VariantSubmit(v)
    \/ \E v \in Variants, k \in 1..MaxCopies : VariantVerify(v, k)
    \/ \E v \in Variants, k \in 1..MaxCopies : VariantApprove(v, k)

SpecVariants == InitAdmin /\ [][NextVariants]_vars

---------------------------------------------------------------------------
(* The subscribe endpoint as a handler (server.js:535-560) *)

\* server.js:535-560: the document Subscribe gives is created and the handler
\* answers 200; 400 without phone or location; 500 when the store rejects
SubscribeAlert(body, storeOk) ==
    LET result == Subscribe(body)
        status == IF result.status = 400 THEN 400 ELSE IF storeOk THEN 200 ELSE 500
    IN  /\ Requests < MaxRequests
        /\ subs' = IF status = 200
                   THEN subs \o [i \in 1..1 |-> CHOOSE d \in result.doc : TRUE]
                   ELSE subs
        /\ responses' = responses (+) One(Response(Requests + 1, "/subscribe-alert", status))
        /\ UNCHANGED <<scraperVars, matchVars, unhandled, deliverVars, moreVars,
                       news, reports, notifies, sends, events, edits>>

\* the phone numbers subscribers type
TypedPhones ==
    {Absent, <<"0","7">>, <<"+","1">>, <<" ","+","1">>, <<"7">>, <<" ">>,
     <<" ","0","7"," ">>, <<"0","8">>}

SubscribeBodies ==
    [phone : TypedPhones, email : {Absent}, location : {Edo, Imo, Absent},
     method : {Absent, <<"S","M","S">>}]

NextSubscribe ==
    \E body \in SubscribeBodies, storeOk \in BOOLEAN : SubscribeAlert(body, storeOk)

SpecSubscribe == InitAdmin /\ [][NextSubscribe]_vars

---------------------------------------------------------------------------
(* The CSV importer and the duplicate cleaner (server.js:164-230, 251-253) *)

MaxRows == 2       \* rows of news.csv
MaxStored == 3     \* News documents in the collection before the first run
MaxRuns == 2       \* runs of  node server.js --import

\* the "#" column of a row: a number, nothing, or blanks
NumberColumn == {<<"1">>, <<"2">>, Absent, Blank}

CsvFiles == UNION {[1..n -> NumberColumn] : n \in 1..MaxRows}

\* a News document of this part: its _id (oid, in insertion order) and its id;
\* the other fields are copied from the row and never read by the two functions
Stored(oid, id) == [oid |-> oid, id |-> id]

\* what earlier imports left: documents whose ids may repeat
StoredBefore ==
    UNION {{SetToBag({Stored(i, ids[i]) : i \in 1..n}) : ids \in [1..n -> {<<"1">>, <<"2">>}]} :
              n \in 0..MaxStored}

\* server.js:184-188: the id of the row at index (from 0): the "#" column as it
\* is when it is not blank, otherwise `csv-${index}-${Date.now()}`
RowId(num, index, now) ==
    IF num # Absent /\ Trim(num) # << >> THEN num ELSE <<"csv", index, now>>

\* server.js:183-196: jsonArray.map
Formatted(rows, now) == [i \in DOMAIN rows |-> RowId(rows[i], i - 1, now)]

\* News.find().lean(): the documents in the order they were inserted
RECURSIVE InOrder(_)
InOrder(docs) ==
    IF docs = {} THEN << >>
    ELSE LET first == CHOOSE d \in docs : \A e \in docs : d.oid <= e.oid
         IN  <<first>> \o InOrder(docs \ {first})

\* the _id of the next document created: later than every stored one
NextOid ==
    LET oids == {d.oid : d \in BagToSet(news)}
    IN  IF oids = {} THEN 1 ELSE 1 + CHOOSE m \in oids : \A o \in oids : o <= m

importUnchanged ==
    <<scraperVars, matchVars, unhandled, deliverVars, subs, reports, notifies,
      sends, responses, events, edits, answer, session, copies, csv>>

\* server.js:251-253, 164-196: the process is started with --import; importCSV
\* reads the file and formats its rows, reading Date.now()
ImportStart ==
    /\ job.pc \in {"idle", "done"}
    /\ clock < MaxRuns
    /\ clock' = clock + 1
    /\ job' = [pc |-> "import", rows |-> Formatted(csv, clock + 1), i |-> 1,
               skipped |-> FALSE, full |-> job.full,
               items |-> << >>, seen |-> {}, failed |-> FALSE]
    /\ UNCHANGED <<importUnchanged, news>>

\* server.js:198-203: one turn of the loop: findOne({ id: row.id }), and create
\* when nothing was found; a create that rejects leaves the loop for the catch
\* block (204-206)
ImportRow(storeOk) ==
    /\ job.pc = "import"
    /\ job.i <= Len(job.rows)
    /\ LET id == job.rows[job.i]
           exists == {d \in BagToSet(news) : d.id = id}
       IN  /\ news' = IF exists = {} /\ storeOk
                      THEN news (+) One(Stored(NextOid, id))
                      ELSE news
           /\ job' = IF exists # {} \/ storeOk
                     THEN [job EXCEPT !.i = @ + 1]
                     ELSE [job EXCEPT !.i = Len(job.rows) + 1, !.skipped = TRUE]
    /\ UNCHANGED <<importUnchanged, clock>>

\* server.js:252, 213-216: importCSV has returned and cleanDuplicates reads the
\* collection; when find() rejects the catch block ends it
CleanStart(storeOk) ==
    /\ job.pc = "import"
    /\ job.i > Len(job.rows)
    /\ LET items == InOrder(BagToSet(news))
           full == job.full \/ ~job.skipped
       IN  job' = IF ~storeOk
                  THEN [job EXCEPT !.pc = "done", !.failed = TRUE, !.full = full]
                  ELSE [job EXCEPT !.pc = IF items = << >> THEN "done" ELSE "clean",
                                   !.items = items, !.i = 1, !.full = full]
    /\ UNCHANGED <<importUnchanged, news, clock>>

\* the turn of the loop with deleteOne({ id: item.id }) in the place of the _id
CleanStepDeleteById(storeOk) ==
    /\ job.pc = "clean"
    /\ LET item == job.items[job.i]
           repeat == item.id \in job.seen
           same == {d \in BagToSet(news) : d.id = item.id}
           first == {d \in same : \A e \in same : d.oid <= e.oid}
           last == job.i = Len(job.items)
       IN  /\ news' = IF repeat /\ storeOk THEN news (-) SetToBag(first) ELSE news
           /\ job' = IF repeat /\ ~storeOk
                     THEN [job EXCEPT !.pc = "done", !.failed = TRUE]
                     ELSE [job EXCEPT !.pc = IF last THEN "done" ELSE "clean",
                                      !.i = @ + 1, !.seen = @ \cup {item.id}]
    /\ UNCHANGED <<importUnchanged, clock>>

\* server.js:218-224: one turn of the loop: an item whose id was seen is deleted
\* by its _id, any other id is added to seen; a deleteOne that rejects leaves
\* the loop for the catch block (226-228)
CleanStep(storeOk) ==
    /\ job.pc = "clean"
    /\ LET item == job.items[job.i]
           repeat == item.id \in job.seen
           last == job.i = Len(job.items)
       IN  /\ news' = IF repeat /\ storeOk
                      THEN news (-) SetToBag({d \in BagToSet(news) : d.oid = item.oid})
                      ELSE news
           /\ job' = IF repeat /\ ~storeOk
                     THEN [job EXCEPT !.pc = "done", !.failed = TRUE]
                     ELSE [job EXCEPT !.pc = IF last THEN "done" ELSE "clean",
                                      !.i = @ + 1, !.seen = @ \cup {item.id}]
    /\ UNCHANGED <<importUnchanged, clock>>

InitImport ==
    /\ InitScraper
    /\ feeds = [f \in 1..NumFeeds |-> <<>>]
    /\ rawItem = NoItem
    /\ found = {}
    /\ unhandled = {}
    /\ probe = NoProbe
    /\ outcome = {}
    /\ subs = << >>
    /\ news \in StoredBefore
    /\ reports = EmptyBag
    /\ notifies = EmptyBag
    /\ sends = EmptyBag
    /\ responses = EmptyBag
    /\ events = EmptyBag
    /\ edits = EmptyBag
    /\ answer = {}
    /\ session = FALSE
    /\ copies = NoCopies
    /\ csv \in CsvFiles
    /\ job = NoJob
    /\ clock = 0

NextImport ==
    \/ ImportStart
    \/ \E storeOk \in BOOLEAN : ImportRow(storeOk)
    \/ \E storeOk \in BOOLEAN : CleanStart(storeOk)
    \/ \E storeOk \in BOOLEAN : CleanStep(storeOk)

SpecImport == InitImport /\ [][NextImport]_vars

---------------------------------------------------------------------------
(* What the claims speak of *)

\* the texts of the stored alerts, and how many stored alerts carry a text
Texts(st) == {d.text : d \in BagToSet(st)}
TextCount(st, t) ==
    BagCardinality([d \in {x \in BagToSet(st) : x.text = t} |-> st[d]])

\* how many live invocations are inside a cycle / are a pending timer
CountPc(ls, p) ==
    BagCardinality([lp \in {x \in BagToSet(ls) : x.pc = p} |-> ls[lp]])
Cycles(ls) == CountPc(ls, "fetch")
Timers(ls) == CountPc(ls, "timer")

\* the timer was set by the catch block: the feed at idx was not answered
Failed(lp) == lp.pc = "timer" /\ lp.idx \notin lp.fetched

Docs == {FeedDocs[n] : n \in DOMAIN FeedDocs}

MatchedTitles == [doc \in Docs |-> {ParseItem(doc[j]).title : j \in MatchedIdx(doc)}]

MatchedPairs ==
    [doc \in Docs |->
        {<<ParseItem(doc[j]).title, ParseItem(doc[j]).link>> : j \in MatchedIdx(doc)}]

UnmatchedLinks ==
    [doc \in Docs |-> {ParseItem(doc[j]).link : j \in DOMAIN doc \ MatchedIdx(doc)}]

\* every matching item of a feed answered in a live cycle is stored or on its way
MatchedKept ==
    \A lp \in BagToSet(loops) : \A f \in lp.fetched : \A t \in MatchedTitles[feeds[f]] :
        t \in Texts(store) \/ \E c \in BagToSet(pending) : c.title = t

\* C1: in every reachable state the alert store holds at most one HateAlert for
\* each distinct text.
C1_OneAlertPerText ==
    \A d \in BagToSet(store) : TextCount(store, d.text) <= 1

\* C2: a start-scraper signal that arrives while the scraper is already running
\* is a no-op: it adds no second loop.
C2_SecondStartIsNoOp ==
    [][(scraperRunning /\ StartScraper) => loops' = loops]_vars

\* C3: a timer that was pending when stop-scraper arrived schedules no further
\* cycle when it fires, also when start-scraper arrived in between: the old loop
\* ends and cycles never overlap.
C3_StoppedTimerSchedulesNothing ==
    [][\A lp \in LoopStates :
          (lp.stopSeen /\ TimerFire(lp)) =>
              (loops' = loops (-) One(lp) /\ Cycles(loops') <= 1)]_vars

\* C4: when the fetch of one feed fails, every feed after it in FEEDS is still
\* fetched in the same cycle.
C4_FailureIsolatedPerFeed ==
    \A lp \in BagToSet(loops) :
        Failed(lp) => \A j \in (lp.idx + 1)..NumFeeds : j \in lp.fetched

\* C5: a failed fetch does not stop the loop: the cycle it fails in ends by
\* setting the timer, that timer firing while the scraper is running begins a
\* cycle, and while the scraper stays running a cycle follows.
C5_FailedCycleReschedules ==
    /\ [][\A lp \in LoopStates :
            /\ (lp.pc = "fetch" /\ lp \in BagToSet(loops) /\ Cycles(loops') < Cycles(loops))
                    => Timers(loops') = Timers(loops) + 1
            /\ FetchFail(lp) =>
                    \E t \in BagToSet(loops') : Failed(t) /\ t.idx = lp.idx
            /\ (Failed(lp) /\ scraperRunning /\ TimerFire(lp))
                    => Cycles(loops') = Cycles(loops) + 1]_vars
    /\ (scraperRunning /\ \E lp \in BagToSet(loops) : Failed(lp))
            ~> (~scraperRunning \/ Cycles(loops) > 0)

W5_FailedCycleTimerPending ==
    scraperRunning /\ \E lp \in BagToSet(loops) : Failed(lp)

\* C6: a stop-scraper signal takes effect at the next cycle boundary: it leaves
\* the cycles in flight and their callbacks as they are, the matching items of
\* the feeds such a cycle fetched are stored or on their way, no cycle begins
\* while the flag is down, and unless a start-scraper signal follows, eventually
\* nothing is left: no cycle, no pending timer, no callback.
C6_StopAtCycleBoundary ==
    /\ [](~scraperRunning => MatchedKept)
    /\ [][/\ (scraperRunning /\ ~scraperRunning')
                => (Cycles(loops') = Cycles(loops) /\ Timers(loops') = Timers(loops)
                    /\ pending' = pending /\ store' = store)
          /\ Cycles(loops') > Cycles(loops) => scraperRunning']_vars
    /\ (~scraperRunning) ~> (scraperRunning \/ (loops = EmptyBag /\ pending = EmptyBag))

\* the flag is down, yet a cycle that was in flight when it went down has fetched
\* every feed and set its timer, and its alerts are stored
W6_CycleCompletedAfterStop ==
    /\ ~scraperRunning
    /\ \E lp \in BagToSet(loops) :
          lp.pc = "timer" /\ ~lp.stopSeen /\ lp.fetched = 1..NumFeeds
    /\ pending = EmptyBag
    /\ store # EmptyBag

\* C7: the dedup-and-store step looks the alert up by its exact text. When the
\* text is stored already, the step persists nothing, broadcasts nothing and is
\* over; when it is not, the step goes on to persist, and persisting adds one
\* alert with that text and one broadcast.
C7_LookupByExactText ==
    [][\A c \in CallbackStates :
          /\ (ItemFind(c) /\ c.title \in Texts(store))
                => (store' = store /\ emitted' = emitted /\ pending' = pending (-) One(c))
          /\ (ItemFind(c) /\ c.title \notin Texts(store))
                => (store' = store /\ emitted' = emitted
                    /\ pending' = (pending (-) One(c)) (+) One([c EXCEPT !.pc = "create"]))
          /\ ItemCreate(c)
                => (/\ TextCount(store', c.title) = TextCount(store, c.title) + 1
                    /\ BagCardinality(store') = BagCardinality(store) + 1
                    /\ BagCardinality(emitted') = BagCardinality(emitted) + 1)]_vars

\* the cycle has fetched the two feeds that carry the same title, both steps are
\* over, and one alert has that text
W7_SecondStepFoundIt ==
    /\ feeds = FeedsTwoTitles
    /\ \E lp \in BagToSet(loops) : {1, 2} \subseteq lp.fetched
    /\ pending = EmptyBag
    /\ TextCount(store, Kill) = 1

\* a full run over the feeds is behind: every matching title is stored, and no
\* step is about to persist
FirstRunDone ==
    /\ \A f \in 1..NumFeeds : MatchedTitles[feeds[f]] \subseteq Texts(store)
    /\ \A c \in BagToSet(pending) : c.pc = "find"

\* C8: once the fetch-match-store cycle has run over the unchanged feeds, running
\* it again stores no alert: the store stays as the first run left it.
C8_SecondRunAddsNothing ==
    [][FirstRunDone => (FirstRunDone' /\ store' = store /\ emitted' = emitted)]_vars

\* the only live loop has fetched the first feed again, the steps of its items
\* are over, and the store holds what the earlier run left: one alert per title
W8_SecondRunOver ==
    /\ feeds = FeedsTwoTitles
    /\ FirstRunDone
    /\ loops = One([pc |-> "fetch", idx |-> 2, fetched |-> {1}, stopSeen |-> FALSE])
    /\ pending = EmptyBag
    /\ BagCardinality(store) = 2

\* two characters that are the same letter, whatever their case
SameLetter(a, b) ==
    \/ a = b
    \/ \E i \in DOMAIN UpperChars : {a, b} = {UpperChars[i], LowerChars[i]}

OccursIgnoringCase(k, s) ==
    \E p \in 0..(Len(s) - Len(k)) : \A j \in 1..Len(k) : SameLetter(s[p + j], k[j])

\* C9: the matcher answers true exactly when some keyword occurs, whatever the
\* case, in the item's title, one space, the item's description.
C9_MatcherExact ==
    \A r \in found :
        r = (\E n \in DOMAIN KEYWORDS :
                OccursIgnoringCase(KEYWORDS[n],
                    ParseItem(rawItem).title \o <<" ">> \o ParseItem(rawItem).desc))

\* an item matched although its title spells the keyword in another case
W9_MatchedInOtherCase ==
    /\ found = {TRUE}
    /\ \E i \in DOMAIN rawItem.title : rawItem.title[i] = "L"
    /\ rawItem.desc = <<>>

\* C10: every stored alert has the title as text and the link as url of a feed
\* item that matched; the link of an item that did not match is never stored;
\* a matching item of a fetched feed is stored or on its way, its step goes on
\* to persist when the title is not stored, and persisting stores that alert.
C10_StoredAlertsAreMatches ==
    /\ [](\A d \in BagToSet(store) :
            /\ \E f \in 1..NumFeeds : <<d.text, d.url>> \in MatchedPairs[feeds[f]]
            /\ \A f \in 1..NumFeeds : d.url \notin UnmatchedLinks[feeds[f]])
    /\ []MatchedKept
    /\ [][\A c \in CallbackStates :
            /\ (ItemFind(c) /\ c.title \notin Texts(store))
                  => [c EXCEPT !.pc = "create"] \in BagToSet(pending')
            /\ ItemCreate(c)
                  => store' = store (+) One([text |-> c.title, url |-> c.link])]_vars

\* the item matched by its description is stored, the feed with an item that
\* matches nothing was fetched, and every step is over
W10_MatchStoredOthersNot ==
    /\ [text |-> ParseItem(ItemD).title, url |-> ParseItem(ItemD).link] \in BagToSet(store)
    /\ \E lp \in BagToSet(loops) : \E f \in lp.fetched : UnmatchedLinks[feeds[f]] # {}
    /\ pending = EmptyBag

\* the subscription and the report location of the per-subscriber step
SubLoc == probe.sub.location
RepLoc == probe.location

\* one location occurs in the other, whatever the case
EitherContains(a, b) == OccursIgnoringCase(a, b) \/ OccursIgnoringCase(b, a)

IsBlank(s) == \A i \in DOMAIN s : s[i] \in WhiteSpace

\* the method names a channel / the subscription can be reached at all
NamesChannel(w) == OccursIgnoringCase(w, probe.sub.method)
NamesAnyChannel ==
    \/ NamesChannel(<<"e","m","a","i","l">>)
    \/ NamesChannel(<<"w","h","a","t","s","a","p","p">>)
    \/ NamesChannel(<<"s","m","s">>)
Reachable == NamesAnyChannel \/ probe.sub.email # Absent

C12_NormalizedEqualityMatches ==
    \A r \in outcome :
        (\/ normalizeStateName(SubLoc) = normalizeStateName(RepLoc)
         \/ EitherContains(SubLoc, RepLoc))
            => r.matched

\* C13: for a matched subscription the sender follows the method, tested for
\* "email", then "whatsapp", then "sms", whatever the case: exactly one sender
\* is called, the first whose word the method contains.
C13_RoutingByMethodInOrder ==
    \A r \in outcome :
        (r.matched /\ NamesAnyChannel) =>
            /\ Len(r.calls) = 1
            /\ r.calls[1].channel =
                  IF NamesChannel(<<"e","m","a","i","l">>) THEN "email"
                  ELSE IF NamesChannel(<<"w","h","a","t","s","a","p","p">>) THEN "whatsapp"
                  ELSE "sms"
            /\ r.calls[1].channel # "email" => r.calls[1].to = probe.sub.phone

\* a matched subscription with method "WhatsApp-preferred" and an email address
\* went to the messaging sender
W13_WhatsAppDespiteEmail ==
    /\ NamesChannel(<<"w","h","a","t","s","a","p","p">>)
    /\ probe.sub.email # Absent
    /\ \E r \in outcome :
          r.matched /\ r.calls = <<[channel |-> "whatsapp", to |-> probe.sub.phone]>>

\* C14: for a matched subscription whose method is absent or names no channel:
\* with an email address exactly one email goes to that address, without one
\* nothing is sent.
C14_FallbackToEmailOrSkip ==
    \A r \in outcome :
        (r.matched /\ ~NamesAnyChannel) =>
            r.calls = IF probe.sub.email # Absent
                      THEN <<[channel |-> "email", to |-> probe.sub.email]>>
                      ELSE <<>>

\* a matched subscription with method "call" and no email address was skipped
W14_SkippedWithoutAddress ==
    /\ probe.sub.method = <<"c","a","l","l">>
    /\ probe.sub.email = Absent
    /\ \E r \in outcome : r.matched /\ r.calls = <<>>

\* the attempts recorded for report n and the subscriber at position i
SendCount(n, i) ==
    BagCardinality([a \in {x \in BagToSet(sends) : x.rep = n /\ x.sub = i} |-> sends[a]])

NotifyAt(n, p) == \E nt \in BagToSet(notifies) : nt.rep = n /\ nt.pc = p

\* C15: a failure at one subscriber does not stop the fan-out. Every subscriber
\* the loop has passed has the attempts its step makes, whatever happened to the
\* subscribers before it; a step whose sender fails or throws goes on to the
\* next subscriber; and a loop that has begun reaches the end of the list.
C15_FailureDoesNotStopFanOut ==
    /\ [](\A nt \in BagToSet(notifies) :
            nt.pc \in {"loop", "done"} =>
                \A i \in 1..(nt.at - 1) :
                    SendCount(nt.rep, i) = Len(CallsOf[subs[i], nt.location]))
    /\ [](\A nt \in BagToSet(notifies) : nt.pc = "done" => nt.at = Len(subs) + 1)
    /\ [][\A nt \in NotifyStates : \A result \in {"failed", "threw"} :
            NotifyStep(nt, result) =>
                /\ Advanced(nt) \in BagToSet(notifies')
                /\ \E a \in BagToSet(sends') :
                      a.rep = nt.rep /\ a.sub = nt.at /\ a.result = result]_vars
    /\ \A n \in 1..MaxRequests : NotifyAt(n, "loop") ~> NotifyAt(n, "done")

\* the send to one subscriber failed or threw, and a later subscriber of the
\* same report was sent to; that notification is over
W15_SentAfterFailure ==
    \E a, b \in BagToSet(sends) :
        /\ a.rep = b.rep /\ a.sub < b.sub
        /\ a.result # "ok" /\ b.result = "ok"
        /\ NotifyAt(a.rep, "done")

\* C16: notify is fire-and-forget for POST /api/submit-report. The step that
\* stores the report answers 200 and leaves notifySubscribers suspended with no
\* send made; a response, once given, stays as it is, one per request; every
\* attempt and every failed notification belongs to a request answered 200.
C16_FireAndForget ==
    /\ [][news' # news =>
            /\ responses' = responses (+) One(Response(Requests + 1, "/api/submit-report", 200))
            /\ sends' = sends
            /\ \E nt \in BagToSet(notifies') : nt.rep = Requests + 1 /\ nt.pc = "load"]_vars
    /\ [][\A r \in BagToSet(responses) :
            r \in BagToSet(responses') /\ responses'[r] = responses[r]]_vars
    /\ [](\A r, q \in BagToSet(responses) : r.req = q.req => (r = q /\ responses[r] = 1))
    /\ [](\A a \in BagToSet(sends) :
            Response(a.rep, "/api/submit-report", 200) \in BagToSet(responses))
    /\ [](\A nt \in BagToSet(notifies) :
            Response(nt.rep, "/api/submit-report", 200) \in BagToSet(responses))

\* one notification failed to load the subscriptions, a sender failed for
\* another report, and both submissions were answered 200
W16_AnsweredDespiteFailures ==
    /\ \E nt \in BagToSet(notifies) :
          nt.pc = "failed" /\ Response(nt.rep, "/api/submit-report", 200) \in BagToSet(responses)
    /\ \E a \in BagToSet(sends) :
          a.result = "failed" /\ Response(a.rep, "/api/submit-report", 200) \in BagToSet(responses)

\* C17: whenever a report is created through a report-submission endpoint, the
\* notification dispatcher is invoked for it.
C17_EveryCreatedReportNotified ==
    \A r \in BagToSet(responses) :
        r.status = 200 => \E nt \in BagToSet(notifies) : nt.rep = r.req

\* nothing of request n: no stored report, no broadcast, no notification, no send
NothingOf(n) ==
    /\ \A d \in BagToSet(news) : d.id # n
    /\ \A e \in BagToSet(events) : e.rep # n
    /\ \A nt \in BagToSet(notifies) : nt.rep # n
    /\ \A a \in BagToSet(sends) : a.rep # n

\* C18: notify is invoked only after the report is persisted. Every
\* notification, every attempt and every news:created broadcast is of a stored
\* report; a submission answered 400 or 500 leaves no report, no broadcast, no
\* notification and no attempt, and its step changes none of them.
C18_NotifyOnlyAfterPersist ==
    /\ [](\A nt \in BagToSet(notifies) : \E d \in BagToSet(news) : d.id = nt.rep)
    /\ [](\A a \in BagToSet(sends) : \E d \in BagToSet(news) : d.id = a.rep)
    /\ [](\A e \in BagToSet(events) :
            e.name = "news:created" => \E d \in BagToSet(news) : d.id = e.rep)
    /\ [](\A r \in BagToSet(responses) :
            (r.route = "/api/submit-report" /\ r.status # 200) => NothingOf(r.req))
    /\ [][\A body \in ReportBodies, storeOk \in BOOLEAN :
            (SubmitReport(body, storeOk) /\ (~ReportValid(body) \/ ~storeOk))
                => UNCHANGED <<news, events, notifies, sends>>]_vars

\* one submission failed validation, another was rejected by the store, and
\* nothing is stored, broadcast or sent
W18_RejectedSubmissionsLeaveNothing ==
    /\ \E r \in BagToSet(responses) : r.route = "/api/submit-report" /\ r.status = 400
    /\ \E r \in BagToSet(responses) : r.route = "/api/submit-report" /\ r.status = 500
    /\ news = EmptyBag /\ events = EmptyBag /\ notifies = EmptyBag /\ sends = EmptyBag

\* C19: every error raised inside a scraper cycle, a rejected lookup or insert
\* of the store included, is caught inside the loop: no rejection is left
\* unhandled (and so none ends the loop before its next tick).
C19_StoreErrorsCaughtInLoop ==
    unhandled = {}

\* C20: the verified and approved flags of a report are monotonic: no step sets
\* a flag of a stored report back to false while the report exists.
C20_FlagsMonotonic ==
    [][\A d \in BagToSet(news) : \A e \in BagToSet(news') :
          e.id = d.id => /\ d.verified => e.verified
                         /\ d.approved => e.approved]_vars

\* a report is verified and approved, and a handler that loaded it before
\* either flag was set has still to save
W20_StaleHandlerPending ==
    /\ \E d \in BagToSet(news) : d.verified /\ d.approved
    /\ \E ed \in BagToSet(edits) :
          /\ ed.op \in {"verify", "approve"}
          /\ ~ed.doc.verified /\ ~ed.doc.approved
          /\ \E d \in BagToSet(news) : d.id = ed.doc.id /\ d.verified /\ d.approved

\* the collection after flag was set on the report k and nothing else was written
OnlyFlagSet(k, flag) ==
    /\ BagToSet(news') = {IF d.id = k THEN [d EXCEPT ![flag] = TRUE] ELSE d :
                              d \in BagToSet(news)}
    /\ BagCardinality(news') = BagCardinality(news)

\* C21: verified and approved are independent flags. An approve whose save
\* succeeds sets approved on its report, verified or not, and leaves verified,
\* the other fields and the other reports as they are; a verify does the same
\* with verified and leaves approved; on an unknown id both routes answer 404
\* and change nothing.
C21_FlagsIndependent ==
    [][/\ \A ed \in BagToSet(edits) :
            /\ ApproveSave(ed, TRUE) => OnlyFlagSet(ed.doc.id, "approved")
            /\ VerifySave(ed, TRUE) => OnlyFlagSet(ed.doc.id, "verified")
       /\ \A k \in 1..MaxRequests :
            FindNews(k) = {} /\ (VerifyFind(k) \/ ApproveFind(k))
                => answer' = {404} /\ UNCHANGED <<news, edits>>]_vars

\* a report was approved, is not verified, and the route answered 200
W21_ApprovedUnverified ==
    /\ answer = {200}
    /\ \E d \in BagToSet(news) : d.approved /\ ~d.verified


\* the reports of a collection that are approved are verified as well
VerifiedFirst(docs) == \A d \in docs : d.approved => d.verified

\* C22: one server variant enforces verified-before-approved: in that variant
\* no report is approved without being verified, whatever requests it gets.
\* With the variants side by side, at every moment some variant has kept it.
C22_SomeVariantVerifiesFirst ==
    \/ VerifiedFirst(BagToSet(news))
    \/ \E v \in Variants : VerifiedFirst(copies[v])

\* a stored report of one of the variants is not in its collection as it was:
\* a flag of it was set, or it was deleted
ReportTouched ==
    \/ \E d \in BagToSet(news) : ~BagIn(d, news')
    \/ \E v \in Variants : \E d \in copies[v] : d \notin copies'[v]

\* C23: a flag of a report is set, and a report is deleted, only by a request
\* of a logged-in administrator session: no step changes or deletes a stored
\* report while no session is logged in.
C23_ChangesNeedSession == [][ReportTouched => session]_vars


\* the phone a trimmed input is to be stored as
International(t) ==
    IF t # << >> /\ Head(t) = "+" THEN t
    ELSE IF t # << >> /\ Head(t) = "0" THEN <<"+","2","3","4">> \o Tail(t)
    ELSE <<"+","2","3","4">> \o t

\* C24: every stored subscription has a phone that starts with "+". A request
\* with phone and location that the store accepts adds one subscription whose
\* phone is the trimmed input when that starts with "+", the trimmed input with
\* its leading "0" replaced by "+234" when it starts with "0", and "+234"
\* followed by the trimmed input otherwise; a request without phone or without
\* location is answered 400 and stores nothing.
C24_PhoneInternational ==
    [][/\ \A i \in DOMAIN subs' : Head(subs'[i].phone) = "+"
       /\ \A body \in SubscribeBodies :
            /\ SubscribeAlert(body, TRUE) /\ body.phone # Absent /\ body.location # Absent
                 => /\ Len(subs') = Len(subs) + 1
                    /\ SubSeq(subs', 1, Len(subs)) = subs
                    /\ subs'[Len(subs')].phone = International(Trim(body.phone))
            /\ (\E storeOk \in BOOLEAN : SubscribeAlert(body, storeOk))
                    /\ (body.phone = Absent \/ body.location = Absent)
                 => /\ subs' = subs
                    /\ BagIn(Response(Requests + 1, "/subscribe-alert", 400), responses')]_vars

\* a number typed with a leading 0 is stored with the country code, and a
\* request was rejected
W24_NormalizedAndRejected ==
    /\ \E i \in DOMAIN subs : subs[i].phone = <<"+","2","3","4","7">>
    /\ \E r \in BagToSet(responses) : r.status = 400


\* C25: a stored alert is never changed and leaves the store only by the
\* administrator's delete: in every other step (a fetch, a timer, a lookup, a
\* create, a start or stop signal) each stored alert keeps its text and url and
\* stays, in as many copies as before.
C25_AlertsLeaveOnlyByDelete ==
    [][\/ \A d \in BagToSet(store) : CopiesIn(d, store') >= CopiesIn(d, store)
       \/ \E d \in BagToSet(store) : DeleteAlert(d, TRUE)]_vars

\* the scraper was stopped with a timer pending, an alert is stored, and the
\* administrator has deleted one
W25_KeptThroughStopAndDelete ==
    /\ ~scraperRunning
    /\ \E lp \in BagToSet(loops) : lp.stopSeen
    /\ store # EmptyBag
    /\ Deleted = 1

\* C26: the push of matched alerts is at-most-once: an alert is broadcast only
\* in the step that persists it, and only when no alert with its title is in
\* the store, so that no title is broadcast again while its alert stays stored.
C26_PushAtMostOnce ==
    [][\A a \in BagToSet(emitted') :
          CopiesIn(a, emitted') > CopiesIn(a, emitted)
              => /\ CopiesIn(a, store') > CopiesIn(a, store)
                 /\ a.text \notin Texts(store)]_vars

\* an alert with this title was broadcast, so it was stored, and none is stored
\* now: the administrator deleted it
Gone(t) == t \in Texts(emitted) /\ t \notin Texts(store)

\* C28: an alert the administrator deleted comes back with the next fetch of a
\* feed that still carries its item: the fetch leaves a step for the item, the
\* lookup of that step finds nothing and goes on to persist, and persisting
\* stores an alert with the same text and broadcasts it again.
C28_DeletedAlertComesBack ==
    [][/\ \A lp \in BagToSet(loops) : \A t \in MatchedTitles[feeds[lp.idx]] :
            Gone(t) /\ FetchOk(lp)
                => \E c \in BagToSet(pending') : c.title = t /\ c.pc = "find"
       /\ \A c \in BagToSet(pending) :
            Gone(c.title) =>
                /\ ItemFind(c) => BagIn([c EXCEPT !.pc = "create"], pending')
                /\ ItemCreate(c) =>
                     /\ c.title \in Texts(store')
                     /\ CopiesIn(NewAlert(c.title, c.link), emitted')
                            = CopiesIn(NewAlert(c.title, c.link), emitted) + 1]_vars

\* the alert of the first item was broadcast twice, by the steps of two fetches
\* of its feed, and it is stored once: it was deleted in between
W28_StoredAndBroadcastAgain ==
    /\ CopiesIn(NewAlert(Kill, <<"u","1">>), emitted) = 2
    /\ CopiesIn(NewAlert(Kill, <<"u","1">>), store) = 1
    /\ TextCount(store, Kill) = 1
    /\ pending = EmptyBag


\* C27: the email sender is only called with an email address of the
\* subscription as recipient: a matched subscription whose method names email
\* and which has no email address gets no email, and its phone number is never
\* the recipient of one.
C27_EmailOnlyToAddress ==
    \A r \in outcome : \A i \in DOMAIN r.calls :
        r.calls[i].channel = "email"
            => probe.sub.email # Absent /\ r.calls[i].to = probe.sub.email


\* the documents of a list that are the first of their id in it
FirstOfEachId(items) ==
    {items[i] : i \in {n \in DOMAIN items : \A m \in 1..(n - 1) : items[m].id # items[n].id}}

\* cleanDuplicates has run to its end and its catch block was not entered
CleanedWithoutError == job.pc = "done" /\ ~job.failed

\* C29: after cleanDuplicates completes without error no two News documents
\* share an id: of the documents that were there when it began, the first one
\* met of every id is left, and only those, so that a document whose id is
\* unique is still there.
C29_CleanKeepsFirstOfEachId ==
    CleanedWithoutError =>
        /\ BagToSet(news) = FirstOfEachId(job.items)
        /\ \A d \in BagToSet(news) : CopiesIn(d, news) = 1
        /\ \A d, e \in BagToSet(news) : d.id = e.id => d = e

\* the cleaner has ended without error after deleting two documents, and a
\* document with an id of its own is still there
W29_DuplicatesRemoved ==
    /\ CleanedWithoutError
    /\ Len(job.items) = BagCardinality(news) + 2
    /\ \E d \in BagToSet(news) : \A i \in DOMAIN job.items :
            job.items[i].id = d.id => job.items[i] = d

\* C30: importCSV is idempotent on an unchanged file: once a run has been over
\* every row, a later run on the same file adds no document, whether the "#"
\* column of a row is filled or blank.
C30_ImportIdempotent ==
    [][(job.full /\ job.pc = "import")
            => BagCardinality(news') <= BagCardinality(news)]_vars

=============================================================================
